---- MODULE Spec2Model ----
(***************************************************************************)
(* A model of OptionsParser (src/OptionsParser.mjs): one read() call that  *)
(* merges a YAML configuration file, environment variables and command     *)
(* line arguments into a nested configuration and its flattened view, and  *)
(* then verifies that no option is left empty.                             *)
(*                                                                         *)
(* Strings are sequences of atoms.  An atom is a run of letters ("db",     *)
(* "host") or one of the punctuation characters ".", "_" and "-", so that  *)
(* split('.'), replace(/\./g, '_') and toUpperCase() are computed on the   *)
(* string and not assumed.  Option values are TLA+ strings; "" is the      *)
(* empty string of the source.                                             *)
(*                                                                         *)
(* A JavaScript object is an ordered list of its entries (Object.keys      *)
(* enumerates in insertion order).  The nested configuration is the        *)
(* ordered list of its leaves, each with the path of keys leading to it;   *)
(* the leaves below one mapping node are contiguous.                       *)
(***************************************************************************)
EXTENDS Integers, Sequences, FiniteSets, TLC

\* ------------------------------------------------------------------ strings

DOT == "."
UNDERSCORE == "_"

\* String.prototype.toUpperCase on one atom.
UpperAtom(a) ==
    CASE a = "db" -> "DB"
      [] a = "host" -> "HOST"
      [] a = "port" -> "PORT"
      [] a = "name" -> "NAME"
      [] a = "x" -> "X"
      [] a = "extra" -> "EXTRA"
      [] a = "constructor" -> "CONSTRUCTOR"
      [] OTHER -> a

toUpperCase(s) == [i \in DOMAIN s |-> UpperAtom(s[i])]

\* key.replace(/\./g, '_')
replace_dots(s) == [i \in DOMAIN s |-> IF s[i] = DOT THEN UNDERSCORE ELSE s[i]]

\* s.split('.')
RECURSIVE split(_)
split(s) ==
    IF \A i \in DOMAIN s : s[i] # DOT
    THEN <<s>>
    ELSE LET d == CHOOSE i \in DOMAIN s :
                      s[i] = DOT /\ \A j \in 1..(i - 1) : s[j] # DOT
         IN <<SubSeq(s, 1, d - 1)>> \o split(SubSeq(s, d + 1, Len(s)))

\* The dotted key of a path of segments (segments joined by '.').
RECURSIVE join(_)
join(p) ==
    IF Len(p) = 0 THEN <<>>
    ELSE IF Len(p) = 1 THEN p[1]
    ELSE p[1] \o <<DOT>> \o join(Tail(p))

Front(s) == SubSeq(s, 1, Len(s) - 1)
Last(s) == s[Len(s)]
IsPrefix(p, q) == Len(p) <= Len(q) /\ SubSeq(q, 1, Len(p)) = p

SetMax(S) == CHOOSE m \in S : \A n \in S : n <= m
SetMin(S) == CHOOSE m \in S : \A n \in S : m <= n

\* ------------------------------------------------------- ordered objects

\* `k in obj` for own keys, obj[k] and obj[k] = v on an ordered entry list.
Has(obj, k) == \E i \in DOMAIN obj : obj[i].key = k
Get(obj, k) == obj[CHOOSE i \in DOMAIN obj : obj[i].key = k].val
Put_keep_first(obj, k, v) ==
    IF Has(obj, k) THEN obj ELSE Append(obj, [key |-> k, val |-> v])
Put(obj, k, v) ==
    IF Has(obj, k)
    THEN [i \in DOMAIN obj |->
            IF obj[i].key = k THEN [key |-> k, val |-> v] ELSE obj[i]]
    ELSE Append(obj, [key |-> k, val |-> v])
Keys(obj) == {obj[i].key : i \in DOMAIN obj}
KeyList(obj) == [i \in DOMAIN obj |-> obj[i].key]

\* ------------------------------------------------------- the nested tree

IsLeaf(t, p) == \E i \in DOMAIN t : t[i].path = p
IsSection(t, p) ==
    p = <<>> \/ \E i \in DOMAIN t : IsPrefix(p, t[i].path) /\ t[i].path # p
LeafVal(t, p) == t[CHOOSE i \in DOMAIN t : t[i].path = p].val
LeafPaths(t) == {t[i].path : i \in DOMAIN t}
Under(t, p) == {i \in DOMAIN t : IsPrefix(p, t[i].path)}

\* section[key] = value on the mapping node at Front(q): an existing leaf is
\* overwritten in place, an existing section is replaced by the value (its
\* leaves go, the key keeps its position), a new key is added after the
\* section's last entry.
TreeSet(t, q, v) ==
    LET leaf == [path |-> q, val |-> v]
        under == Under(t, q)
    IN IF under # {}
       THEN LET first == SetMin(under)
                t1 == [i \in DOMAIN t |-> IF i = first THEN leaf ELSE t[i]]
            IN SelectSeq(t1, LAMBDA e : ~(IsPrefix(q, e.path) /\ e.path # q))
       ELSE LET sibs == Under(t, Front(q))
                pos == IF sibs = {} THEN Len(t) ELSE SetMax(sibs)
            IN SubSeq(t, 1, pos) \o <<leaf>> \o SubSeq(t, pos + 1, Len(t))

\* Object.keys(tree): the top-level keys, in order of first appearance.
RECURSIVE TopKeysOf(_, _)
TopKeysOf(t, seen) ==
    IF t = <<>> THEN <<>>
    ELSE LET k == Head(t).path[1]
         IN IF k \in seen THEN TopKeysOf(Tail(t), seen)
            ELSE <<k>> \o TopKeysOf(Tail(t), seen \cup {k})
TopKeys(t) == TopKeysOf(t, {})

\* flatten() of vph_js_utils (imported at line 4): one entry per leaf, keyed
\* by the dot-joined path, in traversal order.
flatten(t) == [i \in DOMAIN t |-> [key |-> join(t[i].path), val |-> t[i].val]]

\* ---------------------------------------------------- property access

CONSTRUCTOR == <<"constructor">>
NULL == "<null>"

\* What a JavaScript expression evaluates to while a dotted key is resolved:
\* a mapping node of the tree ("section", at `path`), a primitive string
\* ("prim", `val`), undefined ("undef"), a built-in constructor function
\* reached through the prototype chain ("fn", named by `val`), or a TypeError
\* already raised ("throw").
Node(kind, path, val) == [kind |-> kind, path |-> path, val |-> val]
Root == Node("section", <<>>, "")
Undefined == Node("undef", <<>>, "")
Throw == Node("throw", <<>>, "")

\* node[seg] (line 85).  Own properties first; `constructor` is inherited by
\* every object and primitive; reading a property of undefined raises.
GetProp(os, node, seg) ==
    CASE node.kind = "section" ->
            IF IsLeaf(os.config, node.path \o <<seg>>)
            THEN Node("prim", <<>>, LeafVal(os.config, node.path \o <<seg>>))
            ELSE IF IsSection(os.config, node.path \o <<seg>>)
            THEN Node("section", node.path \o <<seg>>, "")
            ELSE IF seg = CONSTRUCTOR THEN Node("fn", <<>>, "Object")
            ELSE Undefined
      [] node.kind = "prim" ->
            IF seg = CONSTRUCTOR THEN Node("fn", <<>>, "String") ELSE Undefined
      [] node.kind = "fn" ->
            IF Has(os.globals, <<node.val, seg>>)
            THEN Node("prim", <<>>, Get(os.globals, <<node.val, seg>>))
            ELSE IF seg = CONSTRUCTOR THEN Node("fn", <<>>, "Function")
            ELSE Undefined
      [] OTHER -> Throw

RECURSIVE Walk(_, _, _)
Walk(os, node, segs) ==
    IF segs = <<>> THEN node
    ELSE Walk(os, GetProp(os, node, Head(segs)), Tail(segs))

\* _config_path: the section holding the option and the option's own key.
_config_path(os, flattened_object_key) ==
    LET path_segments == split(flattened_object_key)
    IN [section |-> Walk(os, Root, Front(path_segments)),
        key |-> Last(path_segments)]

\* The getter flattened_config: flatten(this._config) the first time, the
\* cached object afterwards.
flattened_config(os) == IF os.cached THEN os.flat ELSE flatten(os.config)

\* _set_option.  The module is strict-mode code: assigning a property on a
\* primitive or on undefined raises a TypeError, and so does a failed walk.
\* The tree is written first (line 70), the flattened view after (line 71).
_set_option(os, flattened_key, value) ==
    LET cp == _config_path(os, flattened_key)
        written ==
            IF cp.section.kind = "section"
            THEN [os EXCEPT !.config =
                     TreeSet(os.config, cp.section.path \o <<cp.key>>, value)]
            ELSE [os EXCEPT !.globals =
                     Put(os.globals, <<cp.section.val, cp.key>>, value)]
    IN IF cp.section.kind \in {"section", "fn"}
       THEN [written EXCEPT
               !.flat = Put(flattened_config(written), flattened_key, value),
               !.cached = TRUE]
       ELSE [os EXCEPT !.thrown = TRUE]

\* A loop of _set_option calls that an exception leaves.
RECURSIVE ApplyPairs(_, _)
ApplyPairs(os, pairs) ==
    IF pairs = <<>> \/ os.thrown THEN os
    ELSE ApplyPairs(_set_option(os, Head(pairs).key, Head(pairs).val), Tail(pairs))

\* ------------------------------------------------------------- the steps

env_prefix == <<"APP">>

\* `${this.env_prefix}_${flattened_key.replace(/\./g, '_').toUpperCase()}`
env_name(flattened_key) ==
    env_prefix \o <<UNDERSCORE>> \o toUpperCase(replace_dots(flattened_key))

\* An option named by the key as it is, dots kept.
option_string_keeps_dots(key) == <<"-", "-">> \o key
\* `--${key.replace(/\./g, '_')}`
option_string(key) == <<"-", "-">> \o replace_dots(key)

\* The keys _read_environment looks up: Object.keys(this._config).
env_keys(os) == TopKeys(os.config)

\* The file step without its try/catch: what is raised leaves the step.
_read_config_file_uncaught(os, f) ==
    IF f.status = "unavailable" THEN [os EXCEPT !.thrown = TRUE]
    ELSE IF f.status = "empty" THEN os
    ELSE ApplyPairs(os, SelectSeq(flatten(f.doc), LAMBDA e : e.val # ""))

\* _read_config_file.  yaml.readSync raises when the file is absent,
\* unreadable or malformed ("unavailable") and gives undefined for an empty
\* document ("empty").  Whatever is raised inside the try block is caught
\* and logged; the pairs applied before it stay applied.
_read_config_file(os, f) ==
    IF f.status = "unavailable" THEN [os EXCEPT !.log = Append(@, <<"error">>)]
    ELSE IF f.status = "empty" THEN os
    ELSE LET pairs == SelectSeq(flatten(f.doc), LAMBDA e : e.val # "")
             after == ApplyPairs(os, pairs)
         IN IF after.thrown
            THEN [after EXCEPT !.thrown = FALSE, !.log = Append(@, <<"error">>)]
            ELSE after

\* _read_environment: one _set_option per looked-up key whose variable is
\* defined in process.env (e), '' included.
_read_environment(os, e) ==
    LET keys == env_keys(os)
        looked == [i \in DOMAIN keys |->
                      [key |-> keys[i],
                       val |-> IF env_name(keys[i]) \in DOMAIN e
                               THEN e[env_name(keys[i])] ELSE NULL]]
        \* process.env[...] === undefined
        pairs == SelectSeq(looked, LAMBDA x : x.val # NULL)
    IN ApplyPairs(os, pairs)

\* _init_argparser: one option per key of the flattened view (the getter
\* caches it), with dest the key itself.  argparse refuses an option string
\* that is already taken.
parser_dests(os) == KeyList(flattened_config(os))
parser_conflict(os) ==
    LET dests == parser_dests(os)
    IN \E i, j \in DOMAIN dests :
          i < j /\ option_string(dests[i]) = option_string(dests[j])

\* parseArgs() of a parser whose dests are the option names without the
\* dashes (the underscored keys) instead of the keys.
parseArgs_underscored_dest(os, a) ==
    LET dests == parser_dests(os)
    IN [i \in DOMAIN dests |->
          [key |-> replace_dots(dests[i]),
           val |-> IF option_string(dests[i]) \in DOMAIN a
                   THEN a[option_string(dests[i])] ELSE NULL]]

\* parseArgs(): every dest gets the value of its option, or null when the
\* option is not on the command line (a).
parseArgs(os, a) ==
    LET dests == parser_dests(os)
    IN [i \in DOMAIN dests |->
          [key |-> dests[i],
           val |-> IF option_string(dests[i]) \in DOMAIN a
                   THEN a[option_string(dests[i])] ELSE NULL]]

\* An option on the command line that the parser does not know: argparse
\* prints the usage and ends the process.
unrecognized(os, a) ==
    \E o \in DOMAIN a : \A i \in DOMAIN parser_dests(os) :
        option_string(parser_dests(os)[i]) # o

\* _read_args.  Nothing is caught here: an error raised by argparse or by
\* _set_option leaves read().
_read_args(os, a) ==
    LET cached == [os EXCEPT !.flat = flattened_config(os), !.cached = TRUE]
    IN IF parser_conflict(os) THEN [cached EXCEPT !.thrown = TRUE]
       ELSE IF unrecognized(os, a) THEN [cached EXCEPT !.exited = TRUE]
       ELSE ApplyPairs(cached,
                SelectSeq(parseArgs(os, a), LAMBDA x : x.val # NULL))

\* _verify_config: the keys of the flattened view whose value is '', in
\* order; each is warned about, and the result is whether there is none.
unset_keys_of_tree(os) ==
    KeyList(SelectSeq(flatten(os.config), LAMBDA e : e.val = ""))
\* The check looking at the first entry of the flattened view only.
unset_keys_first_entry(os) ==
    LET f == flattened_config(os)
    IN IF f # <<>> /\ f[1].val = "" THEN <<f[1].key>> ELSE <<>>
unset_keys(os) ==
    KeyList(SelectSeq(flattened_config(os), LAMBDA e : e.val = ""))
empty_warning(key) == key \o <<" is empty.">>
\* The verifier returning at the first unset key: one warning at most.
_verify_config_first_only(os) ==
    LET unset == unset_keys(os)
    IN [ok |-> unset = <<>>,
        log |-> os.log \o (IF unset = <<>> THEN <<>>
                            ELSE <<empty_warning(unset[1])>>)]
_verify_config(os) ==
    LET unset == unset_keys(os)
    IN [ok |-> unset = <<>>,
        log |-> os.log \o [i \in DOMAIN unset |-> empty_warning(unset[i])]]

\* The order of the steps of read().
read_order_env_first == <<"env", "file", "args", "verify">>
read_order == <<"file", "env", "args", "verify">>
next_pc(step) ==
    IF \E i \in 1..(Len(read_order) - 1) : read_order[i] = step
    THEN read_order[(CHOOSE i \in 1..(Len(read_order) - 1) : read_order[i] = step) + 1]
    ELSE "done"

\* ------------------------------------------------------------ the inputs

DB == <<"db">>
HOST == <<"host">>
PORT == <<"port">>
NAME == <<"name">>
EXTRA == <<"extra">>
X == <<"x">>
DB_HOST == DB \o <<UNDERSCORE>> \o HOST

Leaf(p, v) == [path |-> p, val |-> v]

\* The configurations handed to the constructor: the nested schema of two
\* unset options, one with a top-level option and a default value, and one
\* with a top-level option whose name has an underscore.
Schemas ==
    { <<Leaf(<<DB, HOST>>, ""), Leaf(<<DB, PORT>>, "")>>,
      <<Leaf(<<NAME>>, ""), Leaf(<<DB, HOST>>, "d")>>,
      <<Leaf(<<DB, HOST>>, ""), Leaf(<<DB_HOST>>, "")>> }

\* A leaf list is a tree when no path is empty or a prefix of another and
\* the leaves of every section are contiguous.
WellFormedTree(t) ==
    /\ \A i \in DOMAIN t : t[i].path # <<>>
    /\ \A i, j \in DOMAIN t : i # j => ~IsPrefix(t[i].path, t[j].path)
    /\ \A i, j, k \in DOMAIN t :
          (i < j /\ j < k) =>
              \A n \in 1..Len(t[i].path) :
                  IsPrefix(SubSeq(t[i].path, 1, n), t[k].path)
                      => IsPrefix(SubSeq(t[i].path, 1, n), t[j].path)

MaxFileLeaves == 2

FilePaths ==
    { <<DB, HOST>>, <<DB, PORT>>, <<DB>>, <<NAME>>, <<NAME, X>>, <<EXTRA>>,
      <<CONSTRUCTOR, X>> }
\* Every path may hold a value in the file; two of them may hold ''.
FileEmptyPaths == {<<DB, HOST>>, <<NAME>>}
FileLeaves ==
    {Leaf(p, "f") : p \in FilePaths} \cup {Leaf(p, "") : p \in FileEmptyPaths}
FileDocs ==
    {d \in UNION {[1..n -> FileLeaves] : n \in 1..MaxFileLeaves} :
        WellFormedTree(d)}
Files ==
    {[status |-> "unavailable", doc |-> <<>>], [status |-> "empty", doc |-> <<>>]}
        \cup {[status |-> "doc", doc |-> d] : d \in FileDocs}

SchemaKeys(t) == {join(p) : p \in LeafPaths(t)}

\* The variables a user may define: one per option of the schema, and one
\* per top-level key of the configuration.
EnvNames(t) ==
    {env_name(k) : k \in SchemaKeys(t)}
        \cup {env_name(TopKeys(t)[i]) : i \in DOMAIN TopKeys(t)}
EnvValues == {"", "e"}
Envs(t) == UNION {[D -> EnvValues] : D \in SUBSET EnvNames(t)}

\* The command lines: any of the schema's options, each with a value.
ArgValues == {"", "a"}
ArgLines(t) ==
    UNION {[D -> ArgValues] : D \in SUBSET {option_string(k) : k \in SchemaKeys(t)}}

\* ------------------------------------------------------- the state machine

VARIABLES
    config,     \* this._config, the nested configuration
    flat,       \* this._flattened_config once it is cached
    cached,     \* this._flattened_config !== undefined
    globals,    \* properties written on built-in constructor functions
    log,        \* the console.warn() calls so far
    pc,         \* the step read() is at, or how it ended
    result,     \* what read() returned (when pc = "done")
    steps,      \* the steps of read() that were run, in order
    schema,     \* the configuration as constructed
    file,       \* what the configuration file held when it was read
    env,        \* process.env when it was read
    args,       \* the command line when it was parsed
    before      \* the tree and the flattened view before the latest step

vars == <<config, flat, cached, globals, log, pc, result, steps, schema,
          file, env, args, before>>

This ==
    [config |-> config, flat |-> flat, cached |-> cached, globals |-> globals,
     log |-> log, thrown |-> FALSE, exited |-> FALSE]

Snapshot == [config |-> config, flat |-> flattened_config(This)]

Init ==
    /\ schema \in Schemas
    /\ config = schema
    /\ flat = <<>>
    /\ cached = FALSE
    /\ globals = <<>>
    /\ log = <<>>
    /\ pc = read_order[1]
    /\ result = FALSE
    /\ steps = <<>>
    /\ file = [status |-> "unread", doc |-> <<>>]
    /\ env = <<>>
    /\ args = <<>>
    /\ before = [config |-> schema, flat |-> flatten(schema)]

Adopt(os) ==
    /\ config' = os.config
    /\ flat' = os.flat
    /\ cached' = os.cached
    /\ globals' = os.globals
    /\ log' = os.log

Ran(step) ==
    /\ steps' = Append(steps, step)
    /\ before' = Snapshot

\* Where read() is after a step: an error nobody catches and the end of the
\* process leave it, otherwise the next statement runs.
Outcome(os, step) ==
    IF os.thrown THEN "thrown"
    ELSE IF os.exited THEN "exited"
    ELSE next_pc(step)

ReadConfigFile ==
    /\ pc = "file"
    /\ \E f \in Files :
          /\ file' = f
          /\ Adopt(_read_config_file(This, f))
          /\ pc' = Outcome(_read_config_file(This, f), "file")
    /\ Ran("file")
    /\ UNCHANGED <<result, schema, env, args>>

ReadEnvironment ==
    /\ pc = "env"
    /\ \E e \in Envs(schema) :
          /\ env' = e
          /\ Adopt(_read_environment(This, e))
          /\ pc' = Outcome(_read_environment(This, e), "env")
    /\ Ran("env")
    /\ UNCHANGED <<result, schema, file, args>>

ReadArgs ==
    /\ pc = "args"
    /\ \E a \in ArgLines(schema) :
          /\ args' = a
          /\ Adopt(_read_args(This, a))
          /\ pc' = Outcome(_read_args(This, a), "args")
    /\ Ran("args")
    /\ UNCHANGED <<result, schema, file, env>>

VerifyConfig ==
    /\ pc = "verify"
    /\ result' = _verify_config(This).ok
    /\ log' = _verify_config(This).log
    /\ Ran("verify")
    /\ pc' = next_pc("verify")
    /\ UNCHANGED <<config, flat, cached, globals, schema, file, env, args>>

Next == ReadConfigFile \/ ReadEnvironment \/ ReadArgs \/ VerifyConfig

Spec == Init /\ [][Next]_vars

\* ------------------------------------------------------------ the claims

\* The flattened view as the getter gives it, and the two views at a key.
View == flattened_config(This)
InView(k) == Has(View, k)
ViewAt(k) == Get(View, k)
InTree(t, k) == IsLeaf(t, split(k))
TreeAt(t, k) == LeafVal(t, split(k))

\* What each source holds for the option k.
ArgGiven(k) == option_string(k) \in DOMAIN args
ArgValue(k) == args[option_string(k)]
EnvGiven(k) == env_name(k) \in DOMAIN env
EnvValue(k) == env[env_name(k)]
InFile(k) == file.status = "doc" /\ Has(flatten(file.doc), k)
FileValue(k) == Get(flatten(file.doc), k)
FileGiven(k) == InFile(k) /\ FileValue(k) # ""

Order == <<"file", "env", "args", "verify">>
Returned == pc = "done"

\* The file names only options of the schema; the environment defines only
\* variables of options of the schema.
FileConforms ==
    file.status = "doc" =>
        \A i \in DOMAIN file.doc : join(file.doc[i].path) \in SchemaKeys(schema)
EnvConforms == DOMAIN env \subseteq {env_name(k) : k \in SchemaKeys(schema)}

\* C1: after read(), every option of the schema holds the value of the
\* highest-priority source that supplied one (argument, then environment
\* variable, then file), and its initial value when none did.  Stated for
\* the files and environments that name only options of the schema.
Merged(k) ==
    IF ArgGiven(k) THEN ArgValue(k)
    ELSE IF EnvGiven(k) THEN EnvValue(k)
    ELSE IF FileGiven(k) THEN FileValue(k)
    ELSE TreeAt(schema, k)
C1_PriorityMerge ==
    (Returned /\ FileConforms /\ EnvConforms) => \A k \in SchemaKeys(schema) : InView(k) /\ ViewAt(k) = Merged(k)

\* C2: after read(), an option given on the command line holds the
\* argument's value in the flattened view and in the nested tree, whatever
\* the file and the environment hold for it.
C2_ArgumentWins ==
    Returned =>
        \A k \in SchemaKeys(schema) :
            ArgGiven(k) =>
                /\ InView(k) /\ ViewAt(k) = ArgValue(k)
                /\ InTree(config, k) /\ TreeAt(config, k) = ArgValue(k)
C2_Witness ==
    /\ Returned
    /\ \E k \in SchemaKeys(schema) :
          /\ ArgGiven(k) /\ ArgValue(k) = "a"
          /\ EnvGiven(k) /\ EnvValue(k) = "e"
          /\ FileGiven(k)
          /\ InView(k) /\ ViewAt(k) = "a"

\* C3: after read(), every option of the schema, nested ones included, whose
\* environment variable is defined and which is not given on the command
\* line holds the variable's value in both views.  Stated for the files and
\* environments that name only options of the schema.
C3_EnvironmentApplied ==
    (Returned /\ FileConforms /\ EnvConforms) =>
        \A k \in SchemaKeys(schema) :
            (EnvGiven(k) /\ ~ArgGiven(k)) =>
                /\ InView(k) /\ ViewAt(k) = EnvValue(k)
                /\ InTree(config, k) /\ TreeAt(config, k) = EnvValue(k)

\* C4: the flattened view always has exactly the dotted paths of the leaves
\* of the nested tree as its keys.  Stated for the files that name only
\* options of the schema.
C4_ViewsHaveSameKeys ==
    FileConforms => Keys(View) = {join(p) : p \in LeafPaths(config)}

\* C5: read() returns true exactly when no key of the flattened view is ''
\* after the three reader steps.
C5_TrueIffNoneEmpty ==
    Returned => (result <=> \A i \in DOMAIN View : View[i].val # "")
C5_Witness ==
    /\ Returned /\ result
    /\ \E k \in SchemaKeys(schema) : TreeAt(schema, k) = "" /\ InView(k) /\ ViewAt(k) # ""

\* C6: the steps of read() run in the order file, environment, arguments,
\* verifier, each one once, and a step starts only after the one before it
\* is over.
C6_StepsInOrder ==
    /\ IsPrefix(steps, Order)
    /\ pc \in {"file", "env", "args", "verify"} => pc = Order[Len(steps) + 1]
    /\ Returned => steps = Order
    /\ (file.status # "unread") <=> Len(steps) >= 1
C6_Witness ==
    /\ Returned /\ steps = Order
    /\ FileGiven(<<"name">>) /\ EnvGiven(<<"name">>) /\ ArgGiven(<<"name">>)

\* C7: every read() runs the three reader steps and the verifier and returns
\* a boolean: it never ends by raising or by ending the process.  Stated for
\* the files that name only options of the schema.
C7_ReadAlwaysReturns == FileConforms => pc \notin {"thrown", "exited"}

\* C8: a file that is absent, unreadable or malformed makes the file step
\* log one warning and change nothing; the environment and argument steps
\* still run, and read() returns the verifier's result.
C8_UnavailableFileIsSkipped ==
    file.status = "unavailable" =>
        /\ steps = <<"file">> =>
              /\ pc = "env"
              /\ config = schema /\ View = flatten(schema)
              /\ log = <<<<"error">>>>
        /\ pc \in {"thrown", "exited"} => steps = <<"file", "env", "args">>
        /\ Returned =>
              /\ steps = Order
              /\ result <=> \A i \in DOMAIN View : View[i].val # ""
C8_Witness ==
    /\ file.status = "unavailable"
    /\ Returned /\ result
    /\ EnvGiven(<<"name">>) /\ InView(<<"name">>) /\ ViewAt(<<"name">>) = "e"

\* C9: an option that is '' in the file is left as it was by the file step,
\* in both views; and when it was '' initially and neither the environment
\* nor the command line gives it, the verifier warns about it and read()
\* returns false.
C9_EmptyFileValueIsUnset ==
    \A k \in {join(p) : p \in FilePaths} :
        (InFile(k) /\ FileValue(k) = "") =>
            /\ steps = <<"file">> =>
                  /\ InTree(config, k) <=> InTree(before.config, k)
                  /\ InTree(config, k) => TreeAt(config, k) = TreeAt(before.config, k)
                  /\ InView(k) <=> Has(before.flat, k)
                  /\ InView(k) => ViewAt(k) = Get(before.flat, k)
            /\ ( /\ Returned
                 /\ k \in SchemaKeys(schema) /\ TreeAt(schema, k) = ""
                 /\ ~EnvGiven(k) /\ ~ArgGiven(k) ) =>
                  /\ ~result
                  /\ \E i \in DOMAIN log : log[i] = empty_warning(k)

\* C10: _set_option with a key one of whose intermediate segments is not a
\* mapping node of the tree raises, and changes neither view.
ProbeKeys ==
    {join(p) : p \in FilePaths \cup {<<DB, HOST, X>>, <<EXTRA, X>>}}
IntermediateMissing(k) ==
    \E n \in 1..(Len(split(k)) - 1) : ~IsSection(config, SubSeq(split(k), 1, n))
C10_SetOptionRejectsMissingPath ==
    \A k \in ProbeKeys :
        IntermediateMissing(k) =>
            /\ _set_option(This, k, "v").thrown
            /\ _set_option(This, k, "v").config = config
            /\ flattened_config(_set_option(This, k, "v")) = View

\* C11: two _set_option calls for the same option of the store with different
\* values leave the second value, and not the first, at the option in the
\* nested tree and in the flattened view; the views are those that the
\* second call alone gives.
SetValues == {"", "v", "w"}
SetTwice(k, v1, v2) == _set_option(_set_option(This, k, v1), k, v2)
C11_LastWriteWins ==
    \A k \in SchemaKeys(schema) : \A v1, v2 \in SetValues :
        (InTree(config, k) /\ v1 # v2) =>
            /\ ~SetTwice(k, v1, v2).thrown
            /\ TreeAt(SetTwice(k, v1, v2).config, k) = v2
            /\ Get(flattened_config(SetTwice(k, v1, v2)), k) = v2
            /\ SetTwice(k, v1, v2).config = _set_option(This, k, v2).config
            /\ flattened_config(SetTwice(k, v1, v2))
                  = flattened_config(_set_option(This, k, v2))
C11_Witness ==
    /\ pc = "verify"
    /\ \E k \in SchemaKeys(schema) :
          /\ FileGiven(k) /\ ArgGiven(k) /\ FileValue(k) # ArgValue(k)
          /\ InTree(before.config, k) /\ TreeAt(before.config, k) = FileValue(k)
          /\ InTree(config, k) /\ TreeAt(config, k) = ArgValue(k)
          /\ InView(k) /\ ViewAt(k) = ArgValue(k)

\* C12: after read(), the keys of the flattened view are exactly the
\* flattened keys of the configuration as constructed: no reader adds a key.
C12_NoInventedKeys == Returned => Keys(View) = SchemaKeys(schema)

\* C13: a reader step leaves alone every option of the schema for which its
\* source has no value (absent from the file or '' in it, variable
\* undefined, option not on the command line): the leaf and the entry of the
\* flattened view are the same after the step as before it.  Stated for the
\* files that name only options of the schema.
LastStep == steps[Len(steps)]
Unchanged(k) ==
    /\ InTree(config, k) <=> InTree(before.config, k)
    /\ InTree(config, k) => TreeAt(config, k) = TreeAt(before.config, k)
    /\ InView(k) <=> Has(before.flat, k)
    /\ InView(k) => ViewAt(k) = Get(before.flat, k)
C13_StepsLeaveOtherKeys ==
    (steps # <<>> /\ FileConforms) =>
        \A k \in SchemaKeys(schema) :
            /\ (LastStep = "file" /\ ~FileGiven(k)) => Unchanged(k)
            /\ (LastStep = "env" /\ ~EnvGiven(k)) => Unchanged(k)
            /\ (LastStep = "args" /\ ~ArgGiven(k)) => Unchanged(k)

\* C14: a file step that fails (the file cannot be read, or an error raised
\* while its pairs are applied is caught and logged) leaves the nested tree
\* and the flattened view as they were before the step.
FileStepFailed == steps = <<"file">> /\ log = <<<<"error">>>>
C14_FailedFileStepAppliesNothing ==
    FileStepFailed => (config = before.config /\ View = before.flat)

\* C15: the environment step applies a pair for an option exactly when the
\* option's variable is defined, the empty string included: a variable
\* defined as '' overwrites the option with '' (also a value the file
\* supplied), an undefined variable leaves the option as it was.  Stated for
\* the files and environments that name only options of the schema.
C15_DefinedVariableIsApplied ==
    (steps # <<>> /\ LastStep = "env" /\ FileConforms /\ EnvConforms) =>
        \A k \in SchemaKeys(schema) :
            IF EnvGiven(k)
            THEN /\ InView(k) /\ ViewAt(k) = EnvValue(k)
                 /\ InTree(config, k) /\ TreeAt(config, k) = EnvValue(k)
            ELSE Unchanged(k)
\* The same for the options that are top-level keys of the configuration.
C15_TopLevelOnly ==
    (steps # <<>> /\ LastStep = "env" /\ FileConforms /\ EnvConforms) =>
        \A k \in SchemaKeys(schema) :
            Len(split(k)) = 1 =>
                IF EnvGiven(k)
                THEN /\ InView(k) /\ ViewAt(k) = EnvValue(k)
                     /\ InTree(config, k) /\ TreeAt(config, k) = EnvValue(k)
                ELSE Unchanged(k)

\* C16: every pair the argument step applies is keyed by the dotted key the
\* option was declared for, and carries the option's value; the underscored
\* option name is never used as a key, so the pair addresses the option's
\* leaf.
AppliedArgs(a) == SelectSeq(parseArgs(This, a), LAMBDA x : x.val # NULL)
RECURSIVE ExpectedWarnings(_)
ExpectedWarnings(f) ==
    IF f = <<>> THEN <<>>
    ELSE (IF Head(f).val = "" THEN <<empty_warning(Head(f).key)>> ELSE <<>>)
             \o ExpectedWarnings(Tail(f))
Warnings == SelectSeq(log, LAMBDA x : x # <<"error">>)
NothingSupplied ==
    /\ file.status \in {"unavailable", "empty"}
    /\ DOMAIN env = {}
    /\ DOMAIN args = {}
C17_OneWarningPerUnsetKey ==
    Returned =>
        /\ Warnings = ExpectedWarnings(View)
        /\ \A k \in Keys(View) :
              Cardinality({i \in DOMAIN Warnings : Warnings[i] = empty_warning(k)})
                  = IF ViewAt(k) = "" THEN 1 ELSE 0
        /\ (schema = <<Leaf(<<DB, HOST>>, ""), Leaf(<<DB, PORT>>, "")>> /\ NothingSupplied) =>
              /\ result = FALSE
              /\ Warnings = <<empty_warning(join(<<DB, HOST>>)), empty_warning(join(<<DB, PORT>>))>>
C17_Witness ==
    /\ Returned /\ NothingSupplied /\ result = FALSE
    /\ schema = <<Leaf(<<DB, HOST>>, ""), Leaf(<<DB, PORT>>, "")>>
    /\ Len(Warnings) = 2
    /\ Warnings[1] = empty_warning(join(<<DB, HOST>>))
    /\ Warnings[2] = empty_warning(join(<<DB, PORT>>))

\* C19: when read() returns true, no leaf of the nested configuration is ''.
C19_TrueMeansNoEmptyLeaf ==
    (Returned /\ result = TRUE) => \A i \in DOMAIN config : config[i].val # ""
C19_Witness ==
    /\ Returned /\ result = TRUE
    /\ config # schema
    /\ \E i \in DOMAIN schema : schema[i].val = ""
    /\ \A i \in DOMAIN config : config[i].val # ""
    /\ \A k \in SchemaKeys(schema) : InTree(config, k)

\* C18, as claimed: the parser declares one option per key of the flattened
\* configuration, and distinct keys get distinct option names.
C18_DistinctKeysDistinctFlags ==
    pc = "args" =>
        /\ ~parser_conflict(This)
        /\ \A k1, k2 \in Keys(View) :
              k1 # k2 => option_string(k1) # option_string(k2)

\* C18, amended: the option of a key is '--' followed by the key with every
\* '.' replaced by '_'; two keys get distinct options exactly when they
\* still differ after the replacement.  When all options are distinct the
\* parser has exactly one option per key; when two keys share one, argparse
\* refuses the second declaration and the argument step raises, whatever
\* the command line.
Underscored(k) == [i \in DOMAIN k |-> IF k[i] = DOT THEN UNDERSCORE ELSE k[i]]
Collide(k1, k2) == k1 # k2 /\ Underscored(k1) = Underscored(k2)
DeclaredOptions == {option_string(k) : k \in Keys(View)}
C18_FlagsDistinctUpToUnderscore ==
    /\ pc = "args" =>
          /\ \A k \in Keys(View) :
                option_string(k) = <<"-", "-">> \o Underscored(k)
          /\ \A k1, k2 \in Keys(View) :
                (k1 # k2 /\ option_string(k1) = option_string(k2)) <=> Collide(k1, k2)
          /\ parser_conflict(This) <=> \E k1, k2 \in Keys(View) : Collide(k1, k2)
          /\ ~parser_conflict(This) =>
                Cardinality(DeclaredOptions) = Cardinality(Keys(View))
          /\ \A a \in ArgLines(schema) :
                (\E k1, k2 \in Keys(View) : Collide(k1, k2))
                    => _read_args(This, a).thrown
    /\ (steps # <<>> /\ LastStep = "args" /\ pc # "thrown") =>
          \A k1, k2 \in Keys(before.flat) : ~Collide(k1, k2)
C18_Witness ==
    /\ pc = "thrown" /\ LastStep = "args"
    /\ \E k1, k2 \in SchemaKeys(schema) :
          /\ Collide(k1, k2)
          /\ Len(split(k1)) = 2 /\ Len(split(k2)) = 1
          /\ k1 \in Keys(before.flat) /\ k2 \in Keys(before.flat)

====
